---- MODULE Spec2Model ----
(***************************************************************************)
(* A model of lit-walk's LitWalk class (src/litwalk/litwalk.py): the       *)
(* deduplication-aware BibTeX import, the random / filtered walk, the      *)
(* database initialisation and info; and of the keyword inference of the   *)
(* earlier LitWalk class (src/litwalk/walk.py).                            *)
(*                                                                         *)
(* Python strings are sequences of one-character strings, Python's None    *)
(* and SQL's NULL are the value NULL, a BibTeX entry (a dict) is a         *)
(* function whose DOMAIN is the set of its keys, and a table is the        *)
(* sequence of its rows in rowid order.  md5 is modelled as an injective   *)
(* function of the hashed text: the fingerprint of a text is the text      *)
(* itself under a tag.                                                     *)
(***************************************************************************)
EXTENDS Integers, Sequences, FiniteSets, TLC

VARIABLES
    dev_mode,   \* self.dev_mode, set by __init__
    tables,     \* the names of the tables of db.sqlite (sqlite_master)
    articles,   \* the rows of the articles table, in id order
    activity,   \* the rows of the activity table, in id order
    origin,     \* origin[i]: the file entry that row i was inserted for
    last_file,  \* the entries of the file of the last import_bibtex call
    res         \* the last call: its operation, argument and outcome

vars == <<dev_mode, tables, articles, activity, origin, last_file, res>>

(***************************************************************************)
(* Bounds of the model.                                                    *)
(***************************************************************************)
MaxRows == 3        \* rows of the articles table
MaxFile == 2        \* entries of one citation file
MaxActivity == 2    \* rows of the activity table

(***************************************************************************)
(* Python's None / SQL's NULL.                                             *)
(***************************************************************************)
NULL == <<"None">>

(***************************************************************************)
(* str helpers.                                                            *)
(***************************************************************************)
UpperOf == [a |-> "A", b |-> "B", c |-> "C", d |-> "D", e |-> "E", f |-> "F",
            g |-> "G", h |-> "H", i |-> "I", j |-> "J", k |-> "K", l |-> "L",
            m |-> "M", n |-> "N", o |-> "O", p |-> "P", q |-> "Q", r |-> "R",
            s |-> "S", t |-> "T", u |-> "U", v |-> "V", w |-> "W", x |-> "X",
            y |-> "Y", z |-> "Z"]

LowerLetters == DOMAIN UpperOf

UpperLetters == {UpperOf[c] : c \in LowerLetters}

Digits == {"0", "1", "2", "3", "4", "5", "6", "7", "8", "9"}

Whitespace == {" ", "\n", "\t"}

UpperChar(c) == IF c \in LowerLetters THEN UpperOf[c] ELSE c

LowerChar(c) == IF c \in UpperLetters
                THEN CHOOSE l \in LowerLetters : UpperOf[l] = c
                ELSE c

\* str.lower()
Lower(s) == [i \in 1..Len(s) |-> LowerChar(s[i])]

\* str.capitalize(): first character upper-cased, the rest lower-cased
Capitalize(s) == [i \in 1..Len(s) |-> IF i = 1 THEN UpperChar(s[i]) ELSE LowerChar(s[i])]

\* str.replace(old, new) for a one-character old
ReplaceChar(s, old, new) == [i \in 1..Len(s) |-> IF s[i] = old THEN new ELSE s[i]]

\* str.strip()
RECURSIVE LStrip(_)
LStrip(s) == IF s # <<>> /\ Head(s) \in Whitespace THEN LStrip(Tail(s)) ELSE s

RECURSIVE RStrip(_)
RStrip(s) == IF s # <<>> /\ s[Len(s)] \in Whitespace
             THEN RStrip(SubSeq(s, 1, Len(s) - 1))
             ELSE s

Strip(s) == RStrip(LStrip(s))

\* str.split(sep) for a one-character sep: always at least one piece
RECURSIVE SplitFrom(_, _, _)
SplitFrom(s, sep, cur) ==
    IF s = <<>> THEN <<cur>>
    ELSE IF Head(s) = sep THEN <<cur>> \o SplitFrom(Tail(s), sep, <<>>)
    ELSE SplitFrom(Tail(s), sep, Append(cur, Head(s)))

Split(s, sep) == SplitFrom(s, sep, <<>>)

\* sep.join(parts)
RECURSIVE Join(_, _)
Join(sep, parts) ==
    IF parts = <<>> THEN <<>>
    ELSE IF Len(parts) = 1 THEN parts[1]
    ELSE parts[1] \o sep \o Join(sep, Tail(parts))

\* the `in` operator on strings: sub occurs in s
Contains(s, sub) ==
    \E i \in 1..(Len(s) - Len(sub) + 1) : SubSeq(s, i, i + Len(sub) - 1) = sub

\* re.sub(r"(?u)[^-\w.]", "", s)
WordChars == LowerLetters \cup UpperLetters \cup Digits \cup {"_"}

KeepPathChars(s) == SelectSeq(s, LAMBDA c : c \in WordChars \cup {"-", "."})

Range(xs) == {xs[i] : i \in 1..Len(xs)}

(***************************************************************************)
(* The articles schema and dict access.                                    *)
(***************************************************************************)
\* the columns add_articles fills, in the order of its INSERT
fields == <<"doi", "isbn", "issn", "pmc", "pmid", "arxivid", "title", "abstract", "note",
            "booktitle", "edition", "entrytype", "journal", "keywords", "pages", "author",
            "volume", "number", "url", "year", "month", "md5">>

\* the columns declared integer: SQLite gives them INTEGER affinity
IntegerColumns == {"pmid", "year", "month"}

FieldSet == Range(fields)

\* dict.get(key, default)
Get(article, key, default) == IF key \in DOMAIN article THEN article[key] ELSE default

\* article[key] = value
SetKey(article, key, value) == (key :> value) @@ article

\* hashlib.md5(text).hexdigest(): injective in the text
md5(text) == <<"md5:">> \o text

\* INTEGER affinity: a text that is a decimal number is stored as that number
\* (written here in canonical digits), any other text is stored unchanged
RECURSIVE DropLeadingZeros(_)
DropLeadingZeros(s) ==
    IF Len(s) > 1 /\ Head(s) = "0" THEN DropLeadingZeros(Tail(s)) ELSE s

IntegerAffinity(v) ==
    IF v # NULL /\ v # <<>> /\ Range(v) \subseteq Digits THEN DropLeadingZeros(v) ELSE v

(***************************************************************************)
(* import_bibtex, step by step.                                            *)
(***************************************************************************)
\* skip any entries which are missing both title & abstract
HasTitleOrAbstract(x) == "title" \in DOMAIN x \/ "abstract" \in DOMAIN x

\* a variant that gives such entries an empty title instead of skipping them
SkipMissingDefaultTitle(entries) ==
    [i \in 1..Len(entries) |->
        IF HasTitleOrAbstract(entries[i]) THEN entries[i]
        ELSE SetKey(entries[i], "title", <<>>)]

SkipMissing(entries) == SelectSeq(entries, HasTitleOrAbstract)

\* compute md5 hash for each article title + abstract
\* a variant that hashes the doi as well
HashInputWithDoi(article) ==
    Get(article, "title", <<>>) \o Get(article, "abstract", <<>>) \o Get(article, "doi", <<>>)

HashInput(article) == Get(article, "title", <<>>) \o Get(article, "abstract", <<>>)

WithMd5(entries) ==
    [i \in 1..Len(entries) |-> SetKey(entries[i], "md5", md5(HashInput(entries[i])))]

\* a variant that reads no md5
get_md5s_none(table) == <<>>

\* SELECT md5 FROM articles
get_md5s(table) == [i \in 1..Len(table) |-> table[i].md5]

\* exclude articles already present in the db
ExcludeExisting(entries, existing_md5s) ==
    SelectSeq(entries, LAMBDA x : x["md5"] \notin Range(existing_md5s))

\* SELECT COUNT(id) FROM articles WHERE note='{path}'
CountNote(table, path) == Cardinality({i \in 1..Len(table) : table[i].note = path})

\* os.path.join(a, b)
PathJoin(a, b) ==
    IF b # <<>> /\ Head(b) = "/" THEN b
    ELSE IF a = <<>> \/ a[Len(a)] = "/" THEN a \o b
    ELSE a \o <<"/">> \o b

\* re.sub(r"\.md$", letter + ".md", path)
MdSuffix == <<".", "m", "d">>

EndsWithMd(path) ==
    Len(path) >= 3 /\ SubSeq(path, Len(path) - 2, Len(path)) = MdSuffix

AddSuffix(path, letter) ==
    IF EndsWithMd(path)
    THEN SubSeq(path, 1, Len(path) - 3) \o <<letter>> \o MdSuffix
    ELSE path

\* the path before the collision check: <dir>/<first author><year>_<title>.md
FirstAuthor(article) == Capitalize(Split(article["author"], ",")[1])

Sanitize(path) == KeepPathChars(ReplaceChar(ReplaceChar(Strip(path), " ", "_"), "\n", "_"))

BaseNotePath(article) ==
    LET year == Get(article, "year", <<>>)
        title == Get(article, "title", <<>>)
        dir_ == IF "author" \in DOMAIN article
                THEN <<FirstAuthor(article)[1]>>
                ELSE <<"U", "n", "k", "n", "o", "w", "n">>
        path == IF "author" \in DOMAIN article
                THEN FirstAuthor(article) \o year \o <<"_">> \o title
                ELSE year \o <<"_">> \o title
    IN  PathJoin(dir_, Sanitize(path)) \o MdSuffix

\* a variant that returns the path without looking for it in the table
_get_note_path_unchecked(article, table) ==
    IF "author" \in DOMAIN article /\ FirstAuthor(article) = <<>>
    THEN [outcome |-> "IndexError", path |-> NULL]
    ELSE [outcome |-> "ok", path |-> BaseNotePath(article)]

\* _get_note_path: the path, or how the call ends instead.  The loop never
\* advances i: it tries the "a" suffix only, and runs forever when that
\* path is taken as well.
_get_note_path(article, table) ==
    IF "author" \in DOMAIN article /\ FirstAuthor(article) = <<>>
    THEN [outcome |-> "IndexError", path |-> NULL]
    ELSE IF "author" \in DOMAIN article /\ FirstAuthor(article)[1] = "'"
    THEN [outcome |-> "OperationalError", path |-> NULL]
    ELSE LET path == BaseNotePath(article)
             alt_path == AddSuffix(path, "a")
         IN  IF CountNote(table, path) = 0 THEN [outcome |-> "ok", path |-> path]
             ELSE IF CountNote(table, alt_path) = 0 THEN [outcome |-> "ok", path |-> alt_path]
             ELSE [outcome |-> "hang", path |-> NULL]

\* determine note path to use for article: every path is computed before
\* any row is inserted
NotePaths(entries, table) == [i \in 1..Len(entries) |-> _get_note_path(entries[i], table)]

WithNotes(entries, notes) ==
    [i \in 1..Len(entries) |-> SetKey(entries[i], "note", notes[i].path)]

\* the first article whose note path cannot be computed, 0 when there is none
FirstBadNote(notes) ==
    LET bad == {i \in 1..Len(notes) : notes[i].outcome # "ok"}
    IN  IF bad = {} THEN 0 ELSE CHOOSE i \in bad : \A j \in bad : i <= j

(***************************************************************************)
(* add_articles / add_article.                                             *)
(***************************************************************************)
\* the keyword loop of add_articles
RECURSIVE KeywordLoop(_, _)
KeywordLoop(parts, keywords) ==
    IF parts = <<>> THEN keywords
    ELSE LET keyword == Lower(Strip(Head(parts)))
         IN  IF "/" \notin Range(keyword)
             THEN KeywordLoop(Tail(parts), Append(keywords, keyword))
             ELSE KeywordLoop(Tail(parts), keywords)

\* a variant that keeps the keywords that contain a "/"
ExtractKeywordsKeepSlash(text) ==
    Join(<<";", " ">>, [i \in 1..Len(Split(text, ";")) |-> Lower(Strip(Split(text, ";")[i]))])

ExtractKeywords(text) == Join(<<";", " ">>, KeywordLoop(Split(text, ";"), <<>>))

\* strip newlines from title, abstract, keywords, etc.
StripNewlines(v) == IF v = NULL THEN NULL ELSE ReplaceChar(v, "\n", " ")

\* the entry add_articles builds for one article: every field of `fields`,
\* None where the article lacks it
EntryOf(article) ==
    LET captured == [k \in FieldSet |-> Get(article, k, NULL)]
        stripped == [k \in FieldSet |->
                        IF k \in {"title", "abstract", "author", "keywords"}
                        THEN StripNewlines(captured[k])
                        ELSE captured[k]]
    IN  [stripped EXCEPT !["keywords"] =
            IF stripped["keywords"] = NULL THEN NULL ELSE ExtractKeywords(stripped["keywords"])]

\* id integer PRIMARY KEY: the next rowid
NextId(table) == IF table = <<>> THEN 1 ELSE table[Len(table)].id + 1

\* the row INSERT stores for an entry
RowOf(entry, table) ==
    ("id" :> NextId(table)) @@
    [k \in FieldSet |-> IF k \in IntegerColumns THEN IntegerAffinity(entry[k]) ELSE entry[k]]

\* title text NOT NULL
TitleNotNull(entry) == entry["title"] # NULL

\* add_articles: inserts (and commits) article after article; the first entry
\* the table rejects raises IntegrityError and ends the loop, the rows before
\* it stay
RECURSIVE add_articles(_, _, _)
add_articles(todo, table, org) ==
    IF todo = <<>> THEN [outcome |-> "ok", table |-> table, origin |-> org]
    ELSE LET entry == EntryOf(Head(todo))
         IN  IF ~TitleNotNull(entry)
             THEN [outcome |-> "IntegrityError", table |-> table, origin |-> org]
             ELSE add_articles(Tail(todo), Append(table, RowOf(entry, table)),
                               Append(org, Head(todo)["#"]))

(***************************************************************************)
(* The walk.                                                               *)
(***************************************************************************)
ACTIVITY_ADD == 0

ACTIVITY_WALK == 5

\* SELECT COUNT(id) FROM articles, to which dev_mode appends " LIMIT n" after
\* the statement's semicolon: sqlite3 refuses to execute two statements
num_articles(table, dev) ==
    IF dev THEN [outcome |-> "ProgrammingError", n |-> 0]
    ELSE [outcome |-> "ok", n |-> Len(table)]

\* SELECT * FROM articles
get_articles(table) == table

\* SELECT * FROM articles WHERE id={ind}
RowsWithId(table, ind) == SelectSeq(table, LAMBDA row : row.id = ind)

\* the fields get_filtered searches, in the order of its inner loop
SearchFields == <<"abstract", "author", "keywords", "title">>

\* a variant that appends an article for every field that is not None
MatchingFieldsNotNone(article, search) ==
    SelectSeq(SearchFields, LAMBDA field : article[field] # NULL)

\* get_filtered's list: an article is appended once per field that holds
\* the lower-cased search phrase
MatchingFields(article, search) ==
    SelectSeq(SearchFields,
              LAMBDA field : article[field] # NULL
                             /\ Contains(Lower(article[field]), Lower(search)))

RECURSIVE FilteredList(_, _)
FilteredList(table, search) ==
    IF table = <<>> THEN <<>>
    ELSE [i \in 1..Len(MatchingFields(Head(table), search)) |-> Head(table)]
         \o FilteredList(Tail(table), search)

\* a variant that stores the default action, ACTIVITY_ADD, whatever is passed
update_activity_default(table, entity_id, action) ==
    Append(table, [id |-> IF table = <<>> THEN 1 ELSE table[Len(table)].id + 1,
                   entity_id |-> entity_id,
                   action |-> ACTIVITY_ADD])

\* update_activity: INSERT INTO activity(entity_id, date, action)
update_activity(table, entity_id, action) ==
    Append(table, [id |-> IF table = <<>> THEN 1 ELSE table[Len(table)].id + 1,
                   entity_id |-> entity_id,
                   action |-> action])

(***************************************************************************)
(* The calls.  res records the last call for the properties below.         *)
(***************************************************************************)
NoRet == [article |-> NULL, num_included |-> 0, num_total |-> 0]

NoFile == "No Bibtex file found at specified path!"

\* skipped and excluded are the two counts import_bibtex logs: the entries
\* missing both title and abstract, and the entries already present
Result(op, search, outcome, repeat, skipped, excluded, ret) ==
    [op |-> op, search |-> search, outcome |-> outcome, repeat |-> repeat,
     skipped |-> skipped, excluded |-> excluded,
     before |-> articles, acts |-> activity, ret |-> ret]

\* bibtex.entries: each parsed entry remembers, under "#", the entry as the
\* file gave it
Parsed(file) == [i \in 1..Len(file) |-> SetKey(file[i], "#", file[i])]

\* a variant that records the attempt in the activity table before it looks
\* for the file
import_missing_logged ==
    /\ Len(activity) < MaxActivity
    /\ res' = Result("import", <<>>, NoFile, FALSE, 0, 0, NoRet)
    /\ activity' = update_activity(activity, 0, ACTIVITY_ADD)
    /\ UNCHANGED <<dev_mode, tables, articles, origin, last_file>>

\* import_bibtex(infile) where infile does not exist
import_missing ==
    /\ res' = Result("import", <<>>, NoFile, FALSE, 0, 0, NoRet)
    /\ UNCHANGED <<dev_mode, tables, articles, activity, origin, last_file>>

\* import_bibtex(infile) where infile holds the entries of file.  A call
\* whose note-path loop does not end is interrupted from outside: it leaves
\* the tables as they were.
import_bibtex(file) ==
    \E fresh \in {ExcludeExisting(WithMd5(SkipMissing(Parsed(file))), get_md5s(articles))} :
    \E notes \in {NotePaths(fresh, articles)} :
        LET kept == SkipMissing(Parsed(file))
            bad == FirstBadNote(notes)
            repeat == res.op = "import" /\ res.outcome # NoFile /\ last_file = file
            skipped == Len(file) - Len(kept)
            excluded == Len(kept) - Len(fresh)
        IN  /\ Len(articles) + Len(fresh) <= MaxRows
            /\ IF bad # 0
               THEN /\ res' = Result("import", <<>>, notes[bad].outcome, repeat, skipped,
                                     excluded, NoRet)
                    /\ UNCHANGED <<articles, origin>>
               ELSE \E added \in {add_articles(WithNotes(fresh, notes), articles, origin)} :
                    /\ articles' = added.table
                    /\ origin' = added.origin
                    /\ res' = Result("import", <<>>, added.outcome, repeat, skipped,
                                     excluded, NoRet)
            /\ UNCHANGED <<dev_mode, tables, activity>>

\* get_random: the result, or how the call ends instead; ind is the value
\* random.randint(1, num_articles) returns
get_random(ind) ==
    LET num == num_articles(articles, dev_mode)
        rows == RowsWithId(articles, ind)
    IN  IF num.outcome # "ok" THEN [outcome |-> num.outcome, ret |-> NoRet]
        ELSE IF num.n = 0 THEN [outcome |-> "No articles found!", ret |-> NoRet]
        ELSE IF rows = <<>> THEN [outcome |-> "IndexError", ret |-> NoRet]
        ELSE [outcome |-> "ok",
              ret |-> [article |-> rows[1], num_included |-> num.n, num_total |-> num.n]]

\* get_filtered: the result, or how the call ends instead; pick is the
\* position random.sample(filtered, 1) draws
get_filtered(search, pick) ==
    LET all == get_articles(articles)
        filtered == FilteredList(all, search)
    IN  IF filtered = <<>> THEN [outcome |-> "ValueError", ret |-> NoRet]
        ELSE [outcome |-> "ok",
              ret |-> [article |-> filtered[pick], num_included |-> Len(filtered),
                       num_total |-> Len(all)]]

\* the values the random draw of walk(search) can take (1 when the call
\* ends before it draws)
Draws(search) ==
    LET n == IF search = <<>>
             THEN num_articles(articles, dev_mode).n
             ELSE Len(FilteredList(get_articles(articles), search))
    IN  IF n = 0 THEN {1} ELSE 1..n

\* walk(search)
walk(search) ==
    /\ Len(activity) < MaxActivity
    /\ \E ind \in Draws(search) :
         LET got == IF search = <<>> THEN get_random(ind) ELSE get_filtered(search, ind)
         IN  /\ res' = Result("walk", search, got.outcome, FALSE, 0, 0, got.ret)
             /\ activity' = IF got.outcome = "ok"
                            THEN update_activity(activity, got.ret.article.id, ACTIVITY_WALK)
                            ELSE activity
    /\ UNCHANGED <<dev_mode, tables, articles, origin, last_file>>

(***************************************************************************)
(* The add command of the command line (cli.py).                           *)
(***************************************************************************)
\* str.endswith(suffix)
EndsWith(s, suffix) ==
    Len(s) >= Len(suffix) /\ SubSeq(s, Len(s) - Len(suffix) + 1, Len(s)) = suffix

BibSuffix == <<".", "b", "i", "b">>

\* add(target): exists tells whether a file is at target, file is what that
\* file holds.  A target that does not end in ".bib" is not looked up: the
\* DOI pattern, which asks for the start of the text after a "/", matches no
\* target, and the command returns having done nothing.
add(target, exists, file) ==
    IF EndsWith(target, BibSuffix)
    THEN IF ~exists
         THEN /\ res' = Result("add", target, NoFile, FALSE, 0, 0, NoRet)
              /\ UNCHANGED <<dev_mode, tables, articles, activity, origin, last_file>>
         ELSE import_bibtex(file) /\ UNCHANGED last_file
    ELSE /\ res' = Result("add", target, "ok", FALSE, 0, 0, NoRet)
         /\ UNCHANGED <<dev_mode, tables, articles, activity, origin, last_file>>

(***************************************************************************)
(* The database initialisation.                                            *)
(***************************************************************************)
\* the tables _init_db looks for in sqlite_master, in the order of its tests
TableNames == <<"articles", "activity", "annotations", "articleAnnot">>

\* a variant that creates every table anew, whether it is there or not
_init_db_create_all(names, arts, acts) ==
    [tables |-> names \cup Range(TableNames), articles |-> <<>>, activity |-> <<>>]

\* _init_db: creates each table that sqlite_master does not list; a table
\* that is created is empty, a table that is there is not touched
_init_db(names, arts, acts) ==
    [tables |-> names \cup {name \in Range(TableNames) : name \notin names},
     articles |-> IF "articles" \notin names THEN <<>> ELSE arts,
     activity |-> IF "activity" \notin names THEN <<>> ELSE acts]

\* LitWalk(data_dir, notes_dir, dev_mode=dev) on the data directory in use
__init__(dev) ==
    \E db \in {_init_db(tables, articles, activity)} :
        /\ dev_mode' = dev
        /\ tables' = db.tables
        /\ articles' = db.articles
        /\ activity' = db.activity
        /\ origin' = SubSeq(origin, 1, Len(db.articles))
        /\ res' = Result("init", <<>>, "ok", FALSE, 0, 0, NoRet)
        /\ UNCHANGED last_file

(***************************************************************************)
(* info.                                                                   *)
(***************************************************************************)
\* SELECT COUNT(*) FROM articles WHERE <column> IS NULL
CountMissing(table, column) ==
    Cardinality({i \in 1..Len(table) : table[i][column] = NULL})

\* info(): the three counts, then self.num_articles(), whose exception ends
\* the call
info ==
    LET num == num_articles(articles, dev_mode)
        ret == [num_articles |-> num.n,
                missing |-> [doi |-> CountMissing(articles, "doi"),
                             abstract |-> CountMissing(articles, "abstract"),
                             keywords |-> CountMissing(articles, "keywords")]]
    IN  /\ res' = Result("info", <<>>, num.outcome, FALSE, 0, 0,
                         IF num.outcome = "ok" THEN ret ELSE NoRet)
        /\ UNCHANGED <<dev_mode, tables, articles, activity, origin, last_file>>

(***************************************************************************)
(* The keyword inference of the earlier LitWalk class (walk.py).  Its      *)
(* articles table has a doi column that is NOT NULL and not unique; the    *)
(* rows here hold the columns the inference reads or writes.               *)
(***************************************************************************)
\* the characters of the model, in the order of their code points
CodePoints ==
    <<"\t", "\n", " ", "'", ",", "-", ".", "/",
      "0", "1", "2", "3", "4", "5", "6", "7", "8", "9", ";",
      "A", "B", "C", "D", "E", "F", "G", "H", "I", "J", "K", "L", "M",
      "N", "O", "P", "Q", "R", "S", "T", "U", "V", "W", "X", "Y", "Z", "_",
      "a", "b", "c", "d", "e", "f", "g", "h", "i", "j", "k", "l", "m",
      "n", "o", "p", "q", "r", "s", "t", "u", "v", "w", "x", "y", "z">>

\* ord(c)
Ord(c) == CHOOSE i \in 1..Len(CodePoints) : CodePoints[i] = c

\* a < b on strings
RECURSIVE StrLess(_, _)
StrLess(a, b) ==
    IF b = <<>> THEN FALSE
    ELSE IF a = <<>> THEN TRUE
    ELSE IF Head(a) = Head(b) THEN StrLess(Tail(a), Tail(b))
    ELSE Ord(Head(a)) < Ord(Head(b))

\* sorted(list(set(xs))), given the set
RECURSIVE Sorted(_)
Sorted(S) ==
    IF S = {} THEN <<>>
    ELSE LET least == CHOOSE x \in S : \A y \in S : x = y \/ StrLess(x, y)
         IN  <<least>> \o Sorted(S \ {least})

\* str.split(sep) for a sep of any length
RECURSIVE SplitStrFrom(_, _, _)
SplitStrFrom(s, sep, cur) ==
    IF s = <<>> THEN <<cur>>
    ELSE IF Len(s) >= Len(sep) /\ SubSeq(s, 1, Len(sep)) = sep
    THEN <<cur>> \o SplitStrFrom(SubSeq(s, Len(sep) + 1, Len(s)), sep, <<>>)
    ELSE SplitStrFrom(Tail(s), sep, Append(cur, Head(s)))

SplitStr(s, sep) == SplitStrFrom(s, sep, <<>>)

\* all_keywords: the keywords of every article, split at ";" and stripped
RECURSIVE AllKeywords(_)
AllKeywords(rows) ==
    IF rows = <<>> THEN <<>>
    ELSE IF Head(rows).keywords = NULL THEN AllKeywords(Tail(rows))
    ELSE LET parts == Split(Head(rows).keywords, ";")
         IN  [i \in 1..Len(parts) |-> Strip(parts[i])] \o AllKeywords(Tail(rows))

\* pd.Series(xs).value_counts()[x]
ValueCount(xs, x) == Cardinality({i \in 1..Len(xs) : xs[i] = x})

\* _get_target_keywords: the keywords of sufficient frequency and length,
\* sorted
_get_target_keywords(rows, config) ==
    LET all_keywords == AllKeywords(rows)
    IN  Sorted({x \in Range(all_keywords) :
                   /\ ValueCount(all_keywords, x) >= config.min_freq
                   /\ Len(x) >= config.min_size})

\* keywords_str of one article: its keywords and the target keywords found
\* in its title or abstract, as a set, sorted and joined
KeywordsStr(article, target_keywords) ==
    LET keywords == IF article.keywords = NULL THEN <<>>
                    ELSE SplitStr(article.keywords, <<";", " ">>)
        found == SelectSeq(target_keywords,
                           LAMBDA keyword :
                               \/ Contains(Lower(article.title), keyword)
                               \/ /\ article.abstract # NULL
                                  /\ Contains(Lower(article.abstract), keyword))
    IN  Join(<<";", " ">>, Sorted(Range(keywords \o found)))

\* UPDATE articles SET keywords = ? WHERE doi = ?
UpdateWhereDoi(table, keywords_str, doi) ==
    [i \in 1..Len(table) |->
        IF table[i].doi = doi THEN [table[i] EXCEPT !.keywords = keywords_str]
        ELSE table[i]]

\* the loop of _update_keywords over the articles it was given
RECURSIVE UpdateLoop(_, _, _)
UpdateLoop(todo, target_keywords, table) ==
    IF todo = <<>> THEN table
    ELSE LET keywords_str == KeywordsStr(Head(todo), target_keywords)
         IN  UpdateLoop(Tail(todo), target_keywords,
                        IF keywords_str # Head(todo).keywords
                        THEN UpdateWhereDoi(table, keywords_str, Head(todo).doi)
                        ELSE table)

\* _update_keywords(articles): the table it leaves
_update_keywords(rows, table, config) ==
    UpdateLoop(rows, _get_target_keywords(rows, config), table)

\* the keyword loop of walk.py's add_articles, which also drops the
\* excluded keywords
SyncExtractKeywords(text, excluded_keywords) ==
    LET parts == Split(text, ";")
        cleaned == [i \in 1..Len(parts) |-> Lower(Strip(parts[i]))]
    IN  Join(<<";", " ">>,
             SelectSeq(cleaned, LAMBDA keyword : /\ keyword \notin excluded_keywords
                                                  /\ "/" \notin Range(keyword)))

\* the row walk.py's add_articles stores for an article
SyncRowOf(article, table, config) ==
    [id |-> NextId(table),
     doi |-> Get(article, "doi", NULL),
     title |-> StripNewlines(Get(article, "title", NULL)),
     abstract |-> StripNewlines(Get(article, "abstract", NULL)),
     keywords |-> IF "keywords" \in DOMAIN article
                  THEN SyncExtractKeywords(StripNewlines(article["keywords"]), config.exclude)
                  ELSE NULL]

\* the insert loop of walk.py's add_articles: doi and title are NOT NULL, the
\* first row the table rejects ends the call, the rows before it stay
RECURSIVE SyncInsertLoop(_, _, _)
SyncInsertLoop(todo, table, config) ==
    IF todo = <<>> THEN [outcome |-> "ok", table |-> table]
    ELSE LET row == SyncRowOf(Head(todo), table, config)
         IN  IF row.doi = NULL \/ row.title = NULL
             THEN [outcome |-> "IntegrityError", table |-> table]
             ELSE SyncInsertLoop(Tail(todo), Append(table, row), config)

\* walk.py's add_articles(articles) under the configuration config: the
\* inserts, then _sync, which hands every row to _update_keywords.  res
\* records the table as _update_keywords found it.
sync_add_articles(entries, config) ==
    \E added \in {SyncInsertLoop(entries, articles, config)} :
        /\ Len(articles) + Len(entries) <= MaxRows
        /\ IF added.outcome # "ok"
           THEN /\ articles' = added.table
                /\ res' = Result("add_articles", <<>>, added.outcome, FALSE, 0, 0, config)
           ELSE /\ articles' = _update_keywords(get_articles(added.table), added.table, config)
                /\ res' = [Result("add_articles", <<>>, "ok", FALSE, 0, 0, config)
                              EXCEPT !.before = added.table]
        /\ UNCHANGED <<dev_mode, tables, activity, origin, last_file>>

(***************************************************************************)
(* Inputs.                                                                 *)
(***************************************************************************)
\* title a, abstract b
EntryAB == [title |-> <<"a">>, abstract |-> <<"b">>]

\* no title, abstract ab: the hash input of EntryAB
EntryNoTitle == [abstract |-> <<"a", "b">>]

\* title a again, another abstract: the note path of EntryAB
EntryAC == [title |-> <<"a">>, abstract |-> <<"c">>]

\* title aa: the note path of EntryAB with the suffix a
EntryAA == [title |-> <<"a", "a">>]

\* title and abstract of EntryAB, with further fields
EntryFull ==
    [ENTRYTYPE |-> <<"a", "r", "t", "i", "c", "l", "e">>, ID |-> <<"k", "1">>,
     title |-> <<"a">>, abstract |-> <<"b">>, doi |-> <<"d">>,
     author |-> <<"a", "B", " ", "c", ",", " ", "D">>, year |-> <<"0", "7">>,
     keywords |-> <<"K", "/", "x", ";", " ", "B", " ", "b", " ", ";", "\n", "c">>]

\* neither title nor abstract
EntryNeither == [doi |-> <<"d">>]

Pool == {EntryAB, EntryNoTitle, EntryAC, EntryAA, EntryFull, EntryNeither}

FilesOver(pool, maxlen) == UNION {[1..n -> pool] : n \in 1..maxlen}

Files == FilesOver(Pool, MaxFile)

Searches == {<<>>, <<"B">>, <<"z">>}

\* the targets of the add command: one that ends in ".bib", one that does not
Targets == {<<"x", ".", "b", "i", "b">>, <<"x", ".", "b", "i">>}

(***************************************************************************)
(* The specifications.                                                     *)
(***************************************************************************)
\* LitWalk(data_dir, notes_dir, dev_mode=dev) on a new data directory
Constructed(dev) ==
    /\ dev_mode = dev
    /\ tables = _init_db({}, <<>>, <<>>).tables
    /\ articles = <<>>
    /\ activity = <<>>
    /\ origin = <<>>
    /\ last_file = <<>>
    /\ res = [op |-> "init", search |-> <<>>, outcome |-> "ok", repeat |-> FALSE,
              skipped |-> 0, excluded |-> 0,
              before |-> <<>>, acts |-> <<>>, ret |-> NoRet]

\* dev_mode left at its default
Init == Constructed(FALSE)

\* dev_mode as the caller's configuration sets it
InitAnyMode == \E dev \in BOOLEAN : Constructed(dev)

\* imports of any file
Import == \E file \in Files : import_bibtex(file) /\ UNCHANGED last_file

Next ==
    \/ import_missing
    \/ Import

Spec == Init /\ [][Next]_vars

\* imports that remember the file, so that importing it again is seen; the
\* files are one entry longer, over fewer entries
ReimportPool == {EntryAB, EntryNoTitle, EntryAC}

ReimportFiles == FilesOver(ReimportPool, MaxFile + 1)

Reimport == \E file \in ReimportFiles : import_bibtex(file) /\ last_file' = file

NextReimport ==
    \/ import_missing
    \/ Reimport

SpecReimport == Init /\ [][NextReimport]_vars

\* imports, walks, info and the add command, with any dev_mode, on a data
\* directory that is opened again and again
WalkPool == {EntryFull, EntryAC, EntryAA}

WalkFiles == {<<entry>> : entry \in WalkPool}

ImportForWalk == \E file \in WalkFiles : import_bibtex(file) /\ UNCHANGED last_file

Walk == \E search \in Searches : walk(search)

Add == \E target \in Targets, exists \in BOOLEAN, file \in WalkFiles : add(target, exists, file)

Construct == \E dev \in BOOLEAN : __init__(dev)

NextWalk ==
    \/ ImportForWalk
    \/ Walk
    \/ import_missing
    \/ Add
    \/ Construct
    \/ info

SpecWalk == InitAnyMode /\ [][NextWalk]_vars

\* the import of one entry with any keywords field into the empty collection
MaxKw == 3

KwAlphabet == {"a", "B", "/", ";", " ", "\n"}

KwStrings == UNION {[1..n -> KwAlphabet] : n \in 0..MaxKw}

KwEntries == {[title |-> <<"t">>, keywords |-> k] : k \in KwStrings}

ImportKeywords ==
    /\ articles = <<>>
    /\ \E entry \in KwEntries : import_bibtex(<<entry>>)
    /\ UNCHANGED last_file

NextKw == ImportKeywords

SpecKw == Init /\ [][NextKw]_vars

\* walk.py's add_articles, which ends with the keyword inference, on a
\* collection of the earlier LitWalk class
SyncZ == [doi |-> <<"1">>, title |-> <<"x">>, keywords |-> <<"z">>]

\* the doi of SyncZ, unsorted keywords
SyncCB == [doi |-> <<"1">>, title |-> <<"c">>, keywords |-> <<"c", ";", "b">>]

\* no keywords, b in the title
SyncNoKeywords == [doi |-> <<"2">>, title |-> <<"B">>, abstract |-> <<"c">>]

\* bc in the abstract
SyncAbstract ==
    [doi |-> <<"3">>, title |-> <<"q">>, abstract |-> <<"B", "c">>,
     keywords |-> <<"b", "c", ";", " ", "C">>]

\* no title
SyncNoTitle == [doi |-> <<"4">>, abstract |-> <<"a">>]

\* no doi
SyncNoDoi == [title |-> <<"a">>, keywords |-> <<"b">>]

SyncPool == {SyncZ, SyncCB, SyncNoKeywords, SyncAbstract, SyncNoTitle, SyncNoDoi}

SyncFiles == FilesOver(SyncPool, MaxFile)

\* self._config: the keywords section
Configs == [min_freq : {1, 2}, min_size : {1, 2}, exclude : {{}, {<<"z">>}}]

\* the tables walk.py's _init_db creates
SyncTableNames == {"articles", "stats", "articleTopics"}

InitSync ==
    /\ dev_mode = FALSE
    /\ tables = SyncTableNames
    /\ articles = <<>>
    /\ activity = <<>>
    /\ origin = <<>>
    /\ last_file = <<>>
    /\ res = [op |-> "init", search |-> <<>>, outcome |-> "ok", repeat |-> FALSE,
              skipped |-> 0, excluded |-> 0,
              before |-> <<>>, acts |-> <<>>, ret |-> NoRet]

Sync == \E entries \in SyncFiles, config \in Configs : sync_add_articles(entries, config)

NextSync == Sync

SpecSync == InitSync /\ [][NextSync]_vars

(***************************************************************************)
(* Properties.                                                             *)
(***************************************************************************)
Rows == 1..Len(articles)

\* the rows the last call inserted
Inserted == (Len(res.before) + 1)..Len(articles)

ImportCall == res.op = "import" /\ res.outcome # NoFile

\* C1: importing the file of the previous import_bibtex call again, with no
\* call in between, inserts no row and leaves the articles table as it was.
C1_ReimportChangesNothing == (ImportCall /\ res.repeat) => articles = res.before

\* C2: import_bibtex keeps the rows that were there and inserts no row whose
\* md5 is the md5 of a row that was in the table when the call started.
C2_NoKnownFingerprintInserted ==
    ImportCall =>
        /\ Len(articles) >= Len(res.before)
        /\ SubSeq(articles, 1, Len(res.before)) = res.before
        /\ \A i \in Inserted :
             articles[i].md5 \notin {res.before[j].md5 : j \in 1..Len(res.before)}

\* a call that excluded an entry already present and inserted another one
C2_Witness == ImportCall /\ res.excluded > 0 /\ Inserted # {}

\* C3: no two rows of the articles table have the same note path.
C3_NotePathsDistinct ==
    \A i, j \in Rows : i # j => articles[i].note # articles[j].note

\* C4: a walk that returns appends exactly one row to the activity table; its
\* entity_id is the id of the returned article and its action is 5.
C4_WalkAppendsOneActivity ==
    (res.op = "walk" /\ res.outcome = "ok") =>
        /\ Len(activity) = Len(res.acts) + 1
        /\ SubSeq(activity, 1, Len(res.acts)) = res.acts
        /\ activity[Len(activity)].entity_id = res.ret.article.id
        /\ activity[Len(activity)].action = 5

\* a filtered walk that returned when the activity table already had a row
C4_Witness ==
    res.op = "walk" /\ res.outcome = "ok" /\ res.search # <<>> /\ res.acts # <<>>

\* C5: on a non-empty articles table, walk with an empty search returns a
\* row of the table, with num_included = num_total = the number of rows.
C5_RandomWalkReturnsRow ==
    (res.op = "walk" /\ res.search = <<>> /\ articles # <<>>) =>
        /\ res.outcome = "ok"
        /\ res.ret.article \in Range(articles)
        /\ res.ret.num_included = Len(articles)
        /\ res.ret.num_total = Len(articles)

\* C6: a walk with a non-empty search phrase returns a row of the table that
\* holds the phrase, compared case-insensitively, in one of its non-null
\* abstract, author, keywords or title fields.
C6_FilteredWalkMatches ==
    (res.op = "walk" /\ res.search # <<>> /\ res.outcome = "ok") =>
        /\ res.ret.article \in Range(articles)
        /\ \E field \in {"abstract", "author", "keywords", "title"} :
             /\ res.ret.article[field] # NULL
             /\ Contains(Lower(res.ret.article[field]), Lower(res.search))

\* a filtered walk that returned an article matching in a field only because
\* the comparison ignores case, while the table also held an article with a
\* None field that matches in no field
C6_Witness ==
    /\ res.op = "walk" /\ res.outcome = "ok" /\ res.search = <<"B">>
    /\ \E field \in {"abstract", "author", "keywords", "title"} :
         /\ res.ret.article[field] # NULL
         /\ ~Contains(res.ret.article[field], res.search)
         /\ Contains(Lower(res.ret.article[field]), Lower(res.search))
    /\ \E i \in Rows :
         /\ articles[i]["abstract"] = NULL
         /\ \A field \in {"author", "keywords", "title"} :
              articles[i][field] = NULL
              \/ ~Contains(Lower(articles[i][field]), Lower(res.search))

\* C7: after import_bibtex on an empty collection the table holds one row per
\* entry of the file that has a title or an abstract, in file order, with
\* ids 1..n and the entry's title, abstract and doi (newlines replaced by
\* spaces; None when the entry lacks the field).
C7_ImportIntoEmptyStoresEveryEntry ==
    (ImportCall /\ res.before = <<>>) =>
        LET kept == SelectSeq(last_file, LAMBDA x : "title" \in DOMAIN x \/ "abstract" \in DOMAIN x)
        IN  /\ Len(articles) = Len(kept)
            /\ \A i \in Rows :
                 /\ articles[i].id = i
                 /\ \A k \in {"title", "abstract", "doi"} :
                      articles[i][k] = IF k \in DOMAIN kept[i]
                                       THEN ReplaceChar(kept[i][k], "\n", " ")
                                       ELSE NULL

\* the keywords field the claim describes: the ";"-separated keywords, each
\* trimmed and lower-cased, those with a "/" removed, joined with "; "
NormalizedKeywords(text) ==
    LET parts == Split(text, ";")
        cleaned == [i \in 1..Len(parts) |-> Lower(Strip(parts[i]))]
    IN  Join(<<";", " ">>, SelectSeq(cleaned, LAMBDA keyword : "/" \notin Range(keyword)))

\* C8: every non-null stored keywords field is the normalized keywords of the
\* entry's keywords field.
C8_KeywordsNormalized ==
    \A i \in Rows :
        articles[i].keywords # NULL =>
            articles[i].keywords = NormalizedKeywords(origin[i]["keywords"])

\* C8, amended: every non-null stored keywords field is the normalized
\* keywords of the entry's keywords field after each newline in it has been
\* replaced by a space; it is null exactly when the entry has no keywords.
C8_KeywordsNormalizedAfterNewlines ==
    \A i \in Rows :
        /\ articles[i].keywords = NULL <=> "keywords" \notin DOMAIN origin[i]
        /\ articles[i].keywords # NULL =>
             articles[i].keywords =
                 NormalizedKeywords(ReplaceChar(origin[i]["keywords"], "\n", " "))

\* a stored keywords field that lost a keyword with a "/" and kept another
C8_Witness ==
    \E i \in Rows :
        /\ articles[i].keywords # NULL /\ articles[i].keywords # <<>>
        /\ "/" \in Range(origin[i]["keywords"])
        /\ ";" \in Range(origin[i]["keywords"])
        /\ "/" \notin Range(articles[i].keywords)

\* C9: two rows whose entries agree on title and abstract (a missing field
\* counting as the empty string) have the same md5, whatever their other
\* fields are.
C9_FingerprintOfTitleAndAbstract ==
    \A i, j \in Rows :
        (/\ Get(origin[i], "title", <<>>) = Get(origin[j], "title", <<>>)
         /\ Get(origin[i], "abstract", <<>>) = Get(origin[j], "abstract", <<>>))
        => articles[i].md5 = articles[j].md5

\* two rows with the title and abstract in common and different doi
C9_Witness ==
    \E i, j \in Rows :
        /\ origin[i]["title"] = origin[j]["title"]
        /\ Get(origin[i], "abstract", <<>>) = Get(origin[j], "abstract", <<>>)
        /\ articles[i].doi # articles[j].doi

\* C10: no row was inserted for an entry that has neither a title nor an
\* abstract.
C10_NoRowWithoutTitleAndAbstract ==
    \A i \in Rows : "title" \in DOMAIN origin[i] \/ "abstract" \in DOMAIN origin[i]

\* a call that skipped an entry missing both fields and inserted another one
C10_Witness == ImportCall /\ res.skipped > 0 /\ Inserted # {}

\* C11: walk with an empty search on an empty collection fails with "No
\* articles found!" and appends no row to the activity table.
C11_EmptyWalkFails ==
    (res.op = "walk" /\ res.search = <<>> /\ articles = <<>>) =>
        /\ res.outcome = "No articles found!"
        /\ activity = res.acts

C13_ConstructKeepsRows ==
    /\ {"articles", "activity", "annotations", "articleAnnot"} \subseteq tables
    /\ res.op = "init" => (articles = res.before /\ activity = res.acts)

\* a LitWalk was constructed when both tables had rows
C13_Witness == res.op = "init" /\ articles # <<>> /\ activity # <<>>

\* C14: info returns, with dev_mode on or off, num_articles = the number of
\* rows, and the number of rows with a null doi, with a null abstract and
\* with null keywords.
C14_InfoIgnoresDevMode ==
    res.op = "info" =>
        /\ res.outcome = "ok"
        /\ res.ret.num_articles = Len(articles)
        /\ \A column \in {"doi", "abstract", "keywords"} :
             res.ret.missing[column] =
                 Cardinality({i \in Rows : articles[i][column] = NULL})

\* C15: the note path of a row that import_bibtex inserted, which is the
\* path _get_note_path returned for it, is not the note path of any row that
\* was in the table when _get_note_path was called.
C15_ReturnedNotePathUnused ==
    ImportCall =>
        \A i \in Inserted : \A j \in 1..Len(res.before) :
            articles[i].note # res.before[j].note

\* a row was inserted under a path with the suffix "a", the path without the
\* suffix being the note path of a row that was there
C15_Witness ==
    /\ ImportCall
    /\ \E i \in Inserted : \E j \in 1..Len(res.before) :
          /\ articles[i].note # res.before[j].note
          /\ articles[i].note = AddSuffix(res.before[j].note, "a")

\* C16: no import_bibtex call is left without end by _get_note_path.
C16_NotePathTerminates == ImportCall => res.outcome # "hang"

\* C17: no two rows of the articles table have the same md5.
C17_FingerprintsDistinct ==
    \A i, j \in Rows : i # j => articles[i].md5 # articles[j].md5

\* C18: import_bibtex inserts one row, in file order, for every entry of the
\* file that has a title or an abstract and whose md5 was not in the table
\* when the call started.
C18_InsertsEveryFreshEntry ==
    ImportCall =>
        LET known == {res.before[j].md5 : j \in 1..Len(res.before)}
            fresh == SelectSeq(last_file,
                               LAMBDA x : /\ "title" \in DOMAIN x \/ "abstract" \in DOMAIN x
                                          /\ md5(Get(x, "title", <<>>) \o Get(x, "abstract", <<>>))
                                                \notin known)
        IN  /\ Len(articles) = Len(res.before) + Len(fresh)
            /\ \A i \in 1..Len(fresh) : origin[Len(res.before) + i] = fresh[i]

\* C19: an import_bibtex call that fails leaves the articles table as it was
\* when the call started.
C19_ImportAllOrNothing ==
    (ImportCall /\ res.outcome # "ok") => articles = res.before

\* C20: after _update_keywords the keywords of each article are the sorted,
\* duplicate-free union, joined with "; ", of the keywords it had and of
\* every target keyword that occurs in its lower-cased title or abstract,
\* and no keyword it had is removed.
C20_KeywordsExtended ==
    (res.op = "add_articles" /\ res.outcome = "ok") =>
        LET targets == Range(_get_target_keywords(res.before, res.ret))
        IN  /\ Len(articles) = Len(res.before)
            /\ \A i \in Rows :
                 LET old == res.before[i]
                     previous == IF old.keywords = NULL THEN {}
                                 ELSE Range(SplitStr(old.keywords, <<";", " ">>))
                     found == {k \in targets :
                                  \/ Contains(Lower(old.title), k)
                                  \/ old.abstract # NULL /\ Contains(Lower(old.abstract), k)}
                 IN  /\ articles[i].keywords = Join(<<";", " ">>, Sorted(previous \cup found))
                     /\ previous \subseteq Range(SplitStr(articles[i].keywords, <<";", " ">>))

====
